---- MODULE Spec2Model ----
(***************************************************************************)
(* Frame-acquisition-and-inference pipeline of the ZED / Gemini shelf      *)
(* inspection demos (src/demo5.py, src/Livedemo2.py).                      *)
(*                                                                         *)
(* Time is counted in milliseconds: 1.5 s = 1500, 0.03 s = 30,             *)
(* a backoff of 2**attempt seconds = 1000 * 2^attempt.                     *)
(***************************************************************************)
EXTENDS Integers, Sequences, FiniteSets, TLC

VARIABLES
    prog,            \* entry point: "demo5" (main loop), "Livedemo2" (one shot), "harness" (one run_gemini_live call)
    pc,              \* position of main()
    cam,             \* main's local `cam`: "None" or "handle"
    cam_open,        \* driver side: TRUE while the camera is open
    closes,          \* number of cam.close() calls made
    clock,           \* time.time(), in ms
    last_call_time,  \* main's local last_call_time, in ms
    key,             \* cv2.waitKey(1) & 0xFF of the current iteration
    frame,           \* frame handed to run_gemini_live
    grab_status,     \* result of the last cam.grab()
    gate_log,        \* history: every rate-gate decision <<now, verdict>>
    out,             \* last line printed to the operator
    cause,           \* why the try body of main was left
    GEMINI_API_KEY,  \* module-level credential
    retries,         \* run_gemini_live parameter
    rpc,             \* position inside run_gemini_live
    attempt,         \* loop index of `for attempt in range(retries)`
    calls,           \* history: generate_content calls made by the current run_gemini_live
    waits,           \* history: time.sleep(wait) durations of the current run_gemini_live
    answers,         \* history: what the service answered to each call
    result,          \* value returned by run_gemini_live
    site,            \* which return statement of run_gemini_live was taken
    end_time,        \* grab_left_image's local end_time, in ms
    encodes,         \* history: cv2.imencode calls made by the current run_gemini_live
    prev_call_at,    \* history: clock at the start of the latest generate_content call, -1 before any
    last_gap,        \* history: <<time between the latest two calls, loop index of the later one>>
    last_site,       \* history: how the latest finished run_gemini_live ended
    img,             \* frame conversion: the array mat.get_data() delivered
    bgr              \* frame conversion: the array grab_frame returns

vars == <<prog, pc, cam, cam_open, closes, clock, last_call_time, key, frame,
          grab_status, gate_log, out, cause, GEMINI_API_KEY, retries, rpc,
          attempt, calls, waits, answers, result, site, end_time, encodes,
          prev_call_at, last_gap, last_site, img, bgr>>

mainVars == <<pc, cam, cam_open, closes, last_call_time, key, grab_status,
              gate_log, cause>>
rglVars == <<rpc, attempt, calls, waits, answers, result, site, encodes>>
histVars == <<prev_call_at, last_gap, last_site>>
frameVars == <<img, bgr>>

----------------------------------------------------------------------------
(* Bounds of the model *)

MaxTime == 6000      \* no new loop iteration starts after this clock value
MaxTriggers == 3     \* number of 'g' key presses explored
MaxRetries == 4      \* largest `retries` argument explored by the harness
EpochStart == 2000   \* wall-clock reading when the process starts
MaxPixels == 2       \* largest height * width of a frame in the conversion

(* Program constants *)

MIN_INTERVAL == 1500     \* MIN_INTERVAL = 1.5 seconds
LOOP_SLEEP == 30         \* time.sleep(0.03)
DEFAULT_RETRIES == 3     \* retries: int = 3
BackoffUnit == 1000      \* time.sleep takes seconds
TIMEOUT_S == 5000        \* grab_left_image(cam, timeout_s=5)
POLL_SLEEP == 5          \* time.sleep(0.005)

(* Inputs *)

Jitter == {470, 1470}    \* time an iteration takes beyond its sleep
CallTimes == {0, 500}    \* duration of one generate_content call
PollJitter == {495, 1995} \* time one failed poll takes beyond its sleep
Keys == {"g", "q", "other"}
GrabStatuses == {"SUCCESS", "FAIL"}       \* sl.ERROR_CODE returned by cam.grab
ApiKeys == {"None", "", "key"}            \* os.getenv: unset, set to "", set
Frames == {"f_ok", "f_bad"}               \* f_bad: cv2.imencode returns ok = False
ChannelValues == {0, 255}                 \* values of one 8-bit channel
ChannelCounts == {3, 4}                   \* img.shape[2]: RGB or RGBA
Answers == {"ok_text", "ok_empty", "err_503", "err_429", "err_503_429", "err_other"}

----------------------------------------------------------------------------
(* Pure helpers *)

\* a check written as `is not None`: an empty string passes
Truthy_NotNone(v) == v # "None"

\* Python truthiness of the values that occur
Truthy(v) == v \notin {"None", ""}

\* resp.text of a successful answer
TextOf(ans) == IF ans = "ok_text" THEN "TEXT" ELSE ""

\* `x or None`
OrNone(x) == IF Truthy(x) THEN x ELSE "None"

IsError(ans) == ans \notin {"ok_text", "ok_empty"}

\* the quota test made first: a message with both markers is no overload
HasOverloadMarker_QuotaFirst(ans) == ans = "err_503"

\* every service failure taken for an overload
HasOverloadMarker_AnyError(ans) == IsError(ans)

\* "503" in msg or "UNAVAILABLE" in msg
HasOverloadMarker(ans) == ans \in {"err_503", "err_503_429"}

\* a marker that never matches
HasQuotaMarker_Never(ans) == FALSE

\* "RESOURCE_EXHAUSTED" in msg or "429" in msg
HasQuotaMarker(ans) == ans \in {"err_429", "err_503_429"}

RECURSIVE Pow2(_)
Pow2(n) == IF n = 0 THEN 1 ELSE 2 * Pow2(n - 1)

\* the wait passed to time.sleep in the wrong unit
BackoffWait_Millis(a) == Pow2(a)

\* linear instead of exponential backoff
BackoffWait_Linear(a) == (a + 1) * BackoffUnit

\* wait = 2**attempt, in ms
BackoffWait(a) == Pow2(a) * BackoffUnit

\* the gap compared against a shorter interval
TooSoon_Lax(now, last) == now - last < MIN_INTERVAL - BackoffUnit

\* the boundary taken for too soon
TooSoon_Inclusive(now, last) == now - last <= MIN_INTERVAL

\* now - last_call_time < MIN_INTERVAL
TooSoon(now, last) == now - last < MIN_INTERVAL

\* the timestamp refreshed by every trigger, accepted or not
NextLast_Always(now, last) == now

\* the timestamp never refreshed
NextLast_Never(now, last) == last

\* last_call_time after the gate: set to now only on the accepting branch
NextLast(now, last) == IF TooSoon(now, last) THEN last ELSE now

\* the key code compared with a value it never takes
QuitPressed_Never(k) == FALSE

\* key == ord("q")
QuitPressed(k) == k = "q"

\* the ok flag of cv2.imencode ignored
EncodeOk_Ignored(f) == TRUE

\* ok, jpg = cv2.imencode(".jpg", frame): the ok flag
EncodeOk(f) == f # "f_bad"

\* the status of cam.grab not looked at
GrabOk_Any(st) == TRUE

\* cam.grab(...) == sl.ERROR_CODE.SUCCESS
GrabOk(st) == st = "SUCCESS"

\* one attempt too many
InRange_OffByOne(a, n) == a <= n

\* `for attempt in range(retries)`: is there another pass
InRange(a, n) == a < n

----------------------------------------------------------------------------
(* run_gemini_live *)

RglReset ==
    /\ rpc' = "idle"
    /\ attempt' = 0
    /\ calls' = 0
    /\ waits' = <<>>
    /\ answers' = <<>>
    /\ result' = "None"
    /\ site' = "none"
    /\ encodes' = 0

\* credential check, client lookup and JPEG encoding, up to the retry loop
RglEnter ==
    /\ pc = "infer"
    /\ rpc = "entry"
    /\ IF ~Truthy(GEMINI_API_KEY)
         THEN /\ out' = "warn_nokey"
              /\ rpc' = "returned"
              /\ site' = "nocred"
              /\ result' = "None"
         ELSE IF ~EncodeOk(frame)
         THEN /\ out' = "warn_encode"
              /\ rpc' = "returned"
              /\ site' = "encode"
              /\ result' = "None"
         ELSE /\ rpc' = "loop"
              /\ UNCHANGED <<out, site, result>>
    /\ attempt' = 0
    /\ encodes' = IF Truthy(GEMINI_API_KEY) THEN encodes + 1 ELSE encodes
    /\ UNCHANGED <<calls, waits, answers>>
    /\ UNCHANGED <<histVars, frameVars, prog, end_time, clock, frame, GEMINI_API_KEY, retries>>
    /\ UNCHANGED mainVars

\* one pass of the for loop: the remote call and the handling of its outcome
RglAttempt ==
    /\ pc = "infer"
    /\ rpc = "loop"
    /\ InRange(attempt, retries)
    /\ \E ans \in Answers, d \in CallTimes :
         /\ calls' = calls + 1
         /\ answers' = Append(answers, ans)
         /\ prev_call_at' = clock
         /\ last_gap' = IF prev_call_at < 0 THEN <<>>
                                            ELSE <<clock - prev_call_at, attempt>>
         /\ IF ~IsError(ans)
              THEN /\ result' = OrNone(TextOf(ans))
                   /\ rpc' = "returned"
                   /\ site' = "success"
                   /\ clock' = clock + d
                   /\ UNCHANGED <<attempt, waits, out>>
              ELSE IF HasOverloadMarker(ans)
              THEN /\ out' = "warn_overloaded"
                   /\ waits' = Append(waits, BackoffWait(attempt))
                   /\ clock' = clock + d + BackoffWait(attempt)
                   /\ attempt' = attempt + 1
                   /\ UNCHANGED <<result, rpc, site>>
              ELSE IF HasQuotaMarker(ans)
              THEN /\ out' = "warn_quota"
                   /\ result' = "None"
                   /\ rpc' = "returned"
                   /\ site' = "quota"
                   /\ clock' = clock + d
                   /\ UNCHANGED <<attempt, waits>>
              ELSE /\ rpc' = "raised"
                   /\ clock' = clock + d
                   /\ UNCHANGED <<attempt, waits, out, result, site>>
    /\ UNCHANGED <<last_site, encodes, frameVars, prog, end_time, frame, GEMINI_API_KEY, retries>>
    /\ UNCHANGED mainVars

\* the for loop ran out of attempts
RglExhausted ==
    /\ pc = "infer"
    /\ rpc = "loop"
    /\ ~InRange(attempt, retries)
    /\ out' = "error_exhausted"
    /\ result' = "None"
    /\ rpc' = "returned"
    /\ site' = "exhausted"
    /\ UNCHANGED <<attempt, calls, waits, answers, encodes>>
    /\ UNCHANGED <<histVars, frameVars, prog, end_time, clock, frame, GEMINI_API_KEY, retries>>
    /\ UNCHANGED mainVars

----------------------------------------------------------------------------
(* A single call of run_gemini_live(frame, retries) *)

InitInfer ==
    /\ prog = "harness"
    /\ pc = "infer"
    /\ cam = "None"
    /\ cam_open = FALSE
    /\ closes = 0
    /\ clock = EpochStart
    /\ last_call_time = 0
    /\ key = "other"
    /\ frame \in Frames
    /\ grab_status = "none"
    /\ gate_log = <<>>
    /\ out = "none"
    /\ cause = "none"
    /\ GEMINI_API_KEY \in ApiKeys
    /\ retries \in 0..MaxRetries
    /\ rpc = "entry"
    /\ attempt = 0
    /\ calls = 0
    /\ waits = <<>>
    /\ answers = <<>>
    /\ result = "None"
    /\ site = "none"
    /\ end_time = 0
    /\ encodes = 0
    /\ prev_call_at = -1
    /\ last_gap = <<>>
    /\ last_site = "none"
    /\ img = "none"
    /\ bgr = "none"

NextInfer == RglEnter \/ RglAttempt \/ RglExhausted

SpecInfer == InitInfer /\ [][NextInfer]_vars

----------------------------------------------------------------------------
(* grab_frame / grab_left_image: driver array -> BGR array *)

\* (height, width) pairs explored
Shapes == {sh \in (1..MaxPixels) \X (1..MaxPixels) : sh[1] * sh[2] <= MaxPixels}

\* every array mat.get_data() can deliver: shape (h, w, c), one pixel per (row, col)
Images ==
    UNION { [h : {sh[1]}, w : {sh[2]}, c : {c},
             data : [(1..sh[1]) \X (1..sh[2]) -> [1..c -> ChannelValues]]] :
            sh \in Shapes, c \in ChannelCounts }

\* the slice taken one channel too late
Take3_Last(px) == [i \in 1..3 |-> px[i + 1]]

\* img[:, :, :3] on one pixel
Take3(px) == [i \in 1..3 |-> px[i]]

\* img[:, :, ::-1] on one pixel
ReverseChannels(px) == [i \in 1..Len(px) |-> px[Len(px) + 1 - i]]

\* if img.shape[2] == 4: img[:, :, :3][:, :, ::-1] else img[:, :, ::-1]
ToBGR(im) ==
    LET conv(px) == IF im.c = 4 THEN ReverseChannels(Take3(px))
                                ELSE ReverseChannels(px)
        data == [p \in DOMAIN im.data |-> conv(im.data[p])]
    IN  [h |-> im.h, w |-> im.w, c |-> Len(data[<<1, 1>>]), data |-> data]

\* the conversion applied to the array the driver delivered
ConvertFrame ==
    /\ prog = "convert"
    /\ pc = "convert"
    /\ bgr' = ToBGR(img)
    /\ pc' = "converted"
    /\ UNCHANGED <<histVars, img, prog, end_time, cam, cam_open, closes, clock,
                   last_call_time, key, frame, grab_status, gate_log, out, cause,
                   GEMINI_API_KEY, retries>>
    /\ UNCHANGED rglVars

InitFrame ==
    /\ prog = "convert"
    /\ pc = "convert"
    /\ img \in Images
    /\ bgr = "none"
    /\ cam = "handle"
    /\ cam_open = TRUE
    /\ closes = 0
    /\ clock = EpochStart
    /\ last_call_time = 0
    /\ key = "other"
    /\ frame = "None"
    /\ grab_status = "SUCCESS"
    /\ gate_log = <<>>
    /\ out = "none"
    /\ cause = "none"
    /\ GEMINI_API_KEY = "None"
    /\ retries = DEFAULT_RETRIES
    /\ rpc = "idle"
    /\ attempt = 0
    /\ calls = 0
    /\ waits = <<>>
    /\ answers = <<>>
    /\ result = "None"
    /\ site = "none"
    /\ end_time = 0
    /\ encodes = 0
    /\ prev_call_at = -1
    /\ last_gap = <<>>
    /\ last_site = "none"

NextFrame == ConvertFrame

SpecFrame == InitFrame /\ [][NextFrame]_vars

----------------------------------------------------------------------------
(* demo5.main *)

LoopPcs == {"grab", "gate", "infer", "checkq"}

\* cam = open_zed()
OpenZed ==
    /\ prog = "demo5"
    /\ pc = "open"
    /\ \/ /\ cam' = "handle"
          /\ cam_open' = TRUE
          /\ out' = "info_opened"
          /\ pc' = "grab"
          /\ UNCHANGED cause
       \/ /\ cause' = "open"              \* RuntimeError("ZED open failed")
          /\ pc' = "except"
          /\ UNCHANGED <<cam, cam_open, out>>
    /\ UNCHANGED <<histVars, frameVars, prog, end_time, closes, clock, last_call_time, key, frame, grab_status,
                   gate_log, GEMINI_API_KEY, retries>>
    /\ UNCHANGED rglVars

\* top of the while loop: grab_frame, imshow, waitKey
GrabFrame ==
    /\ prog = "demo5"
    /\ pc = "grab"
    /\ clock <= MaxTime
    /\ \E st \in GrabStatuses :
         /\ grab_status' = st
         /\ IF GrabOk(st)
              THEN /\ frame' \in Frames
                   /\ key' \in IF Len(gate_log) < MaxTriggers THEN Keys ELSE Keys \ {"g"}
                   /\ pc' = IF key' = "g" THEN "gate" ELSE "checkq"
                   /\ UNCHANGED cause
              ELSE /\ cause' = "capture"   \* RuntimeError("Failed to grab frame from ZED")
                   /\ pc' = "except"
                   /\ UNCHANGED <<frame, key>>
    /\ UNCHANGED <<histVars, frameVars, prog, end_time, cam, cam_open, closes, clock, last_call_time, gate_log,
                   out, GEMINI_API_KEY, retries>>
    /\ UNCHANGED rglVars

\* key == ord("g"): the rate gate
TryAcquire ==
    /\ prog = "demo5"
    /\ pc = "gate"
    /\ LET now == clock IN
         IF TooSoon(now, last_call_time)
           THEN /\ out' = "info_throttled"
                /\ gate_log' = Append(gate_log, <<now, "Throttled">>)
                /\ pc' = "checkq"
                /\ last_call_time' = NextLast(now, last_call_time)
                /\ UNCHANGED <<retries, rpc>>
           ELSE /\ last_call_time' = NextLast(now, last_call_time)
                /\ out' = "info_running"
                /\ gate_log' = Append(gate_log, <<now, "Accepted">>)
                /\ pc' = "infer"
                /\ retries' = DEFAULT_RETRIES
                /\ rpc' = "entry"
    /\ UNCHANGED <<histVars, frameVars, prog, end_time, cam, cam_open, closes, clock, key, frame, grab_status,
                   cause, GEMINI_API_KEY>>
    /\ UNCHANGED <<attempt, calls, waits, answers, result, site, encodes>>

\* result = run_gemini_live(frame) returned: report it
RglReturn ==
    /\ prog = "demo5"
    /\ pc = "infer"
    /\ rpc = "returned"
    /\ out' = IF Truthy(result) THEN "json" ELSE "info_unavailable"
    /\ pc' = "checkq"
    /\ last_site' = site
    /\ RglReset
    /\ UNCHANGED <<prev_call_at, last_gap, frameVars, prog, end_time, cam, cam_open, closes, clock, last_call_time, key, frame,
                   grab_status, gate_log, cause, GEMINI_API_KEY, retries>>

\* run_gemini_live re-raised: the exception leaves the while loop
RglRaise ==
    /\ prog = "demo5"
    /\ pc = "infer"
    /\ rpc = "raised"
    /\ cause' = "fatal"
    /\ pc' = "except"
    /\ last_site' = "raised"
    /\ RglReset
    /\ UNCHANGED <<prev_call_at, last_gap, frameVars, prog, end_time, cam, cam_open, closes, clock, last_call_time, key, frame,
                   grab_status, gate_log, out, GEMINI_API_KEY, retries>>

\* key == ord("q"): break, else time.sleep(0.03) and loop
CheckQuit ==
    /\ prog = "demo5"
    /\ pc = "checkq"
    /\ IF QuitPressed(key)
         THEN /\ cause' = "quit"
              /\ pc' = "finally"
              /\ UNCHANGED clock
         ELSE /\ \E j \in Jitter : clock' = clock + LOOP_SLEEP + j
              /\ pc' = "grab"
              /\ UNCHANGED cause
    /\ UNCHANGED <<histVars, frameVars, prog, end_time, cam, cam_open, closes, last_call_time, key, frame,
                   grab_status, gate_log, out, GEMINI_API_KEY, retries>>
    /\ UNCHANGED rglVars

\* Ctrl-C while the try body runs: except KeyboardInterrupt
Interrupt ==
    /\ prog = "demo5"
    /\ pc \in LoopPcs \cup {"open"}
    /\ cause' = "interrupt"
    /\ out' = "info_interrupted"
    /\ pc' = "finally"
    /\ RglReset
    /\ UNCHANGED <<histVars, frameVars, prog, end_time, cam, cam_open, closes, clock, last_call_time, key, frame,
                   grab_status, gate_log, GEMINI_API_KEY, retries>>

\* the handler placed inside the while loop: the loop resumes
ExceptHandler_Resume ==
    /\ prog = "demo5"
    /\ pc = "except"
    /\ out' = "error"
    /\ pc' = IF Truthy(cam) THEN "grab" ELSE "finally"
    /\ UNCHANGED <<histVars, frameVars, prog, end_time, cam, cam_open, closes, clock, last_call_time, key, frame,
                   grab_status, gate_log, cause, GEMINI_API_KEY, retries>>
    /\ UNCHANGED rglVars

\* except Exception as e: print, traceback
ExceptHandler ==
    /\ prog = "demo5"
    /\ pc = "except"
    /\ out' = "error"
    /\ pc' = "finally"
    /\ UNCHANGED <<histVars, frameVars, prog, end_time, cam, cam_open, closes, clock, last_call_time, key, frame,
                   grab_status, gate_log, cause, GEMINI_API_KEY, retries>>
    /\ UNCHANGED rglVars

\* cleanup that forgets the camera
Finally_NoClose ==
    /\ prog = "demo5"
    /\ pc = "finally"
    /\ pc' = "exit"
    /\ UNCHANGED <<histVars, frameVars, prog, end_time, cam, cam_open, closes, clock, last_call_time, key,
                   frame, grab_status, gate_log, out, cause, GEMINI_API_KEY, retries>>
    /\ UNCHANGED rglVars

\* finally: if cam: cam.close()
Finally ==
    /\ prog = "demo5"
    /\ pc = "finally"
    /\ IF Truthy(cam)
         THEN /\ closes' = closes + 1
              /\ cam_open' = FALSE
              /\ out' = "info_closed"
         ELSE UNCHANGED <<closes, cam_open, out>>
    /\ pc' = "exit"
    /\ UNCHANGED <<histVars, frameVars, prog, end_time, cam, clock, last_call_time, key, frame, grab_status,
                   gate_log, cause, GEMINI_API_KEY, retries>>
    /\ UNCHANGED rglVars

----------------------------------------------------------------------------
(* Livedemo2.main *)

LivePcs == {"l_open", "l_poll", "l_gemini"}

\* cam = open_zed_camera(...), then the entry of grab_left_image
LiveOpen ==
    /\ prog = "Livedemo2"
    /\ pc = "l_open"
    /\ \/ /\ cam' = "handle"
          /\ cam_open' = TRUE
          /\ out' = "info_opened"
          /\ end_time' = clock + TIMEOUT_S
          /\ pc' = "l_poll"
          /\ UNCHANGED cause
       \/ /\ cause' = "open"
          /\ pc' = "l_except"
          /\ UNCHANGED <<cam, cam_open, out, end_time>>
    /\ UNCHANGED <<histVars, frameVars, prog, closes, clock, last_call_time, key, frame, grab_status,
                   gate_log, GEMINI_API_KEY, retries>>
    /\ UNCHANGED rglVars

\* grab_left_image: one test of `while time.time() < end_time` and its body
LivePoll ==
    /\ prog = "Livedemo2"
    /\ pc = "l_poll"
    /\ IF clock < end_time
         THEN \E st \in GrabStatuses :
                /\ grab_status' = st
                /\ IF GrabOk(st)
                     THEN /\ frame' \in Frames
                          /\ out' = "info_captured"
                          /\ pc' = "l_gemini"
                          /\ UNCHANGED <<clock, cause>>
                     ELSE /\ \E j \in PollJitter : clock' = clock + POLL_SLEEP + j
                          /\ UNCHANGED <<frame, out, pc, cause>>
         ELSE /\ cause' = "capture"       \* RuntimeError("Timed out waiting ...")
              /\ pc' = "l_except"
              /\ UNCHANGED <<grab_status, frame, out, clock>>
    /\ UNCHANGED <<histVars, frameVars, prog, end_time, cam, cam_open, closes, last_call_time, key,
                   gate_log, GEMINI_API_KEY, retries>>
    /\ UNCHANGED rglVars

\* if client: generate_content(...) and print, else skip
LiveGemini ==
    /\ prog = "Livedemo2"
    /\ pc = "l_gemini"
    /\ IF Truthy(GEMINI_API_KEY)
         THEN \E ans \in Answers, d \in CallTimes :
                /\ clock' = clock + d
                /\ \/ /\ ~IsError(ans)             \* resp.text.strip() printed
                      /\ out' = "gemini_text"
                      /\ pc' = "l_finally"
                      /\ UNCHANGED cause
                   \/ /\ ans # "ok_text"            \* service error, or resp.text is None
                      /\ cause' = "fatal"
                      /\ pc' = "l_except"
                      /\ UNCHANGED out
         ELSE /\ out' = "info_skipping"
              /\ pc' = "l_finally"
              /\ UNCHANGED <<clock, cause>>
    /\ UNCHANGED <<histVars, frameVars, prog, end_time, cam, cam_open, closes, last_call_time, key,
                   frame, grab_status, gate_log, GEMINI_API_KEY, retries>>
    /\ UNCHANGED rglVars

\* Ctrl-C: not an Exception, so only the finally clause runs
LiveInterrupt ==
    /\ prog = "Livedemo2"
    /\ pc \in LivePcs
    /\ cause' = "interrupt"
    /\ pc' = "l_finally"
    /\ UNCHANGED <<histVars, frameVars, prog, end_time, cam, cam_open, closes, clock, last_call_time,
                   key, frame, grab_status, gate_log, out, GEMINI_API_KEY, retries>>
    /\ UNCHANGED rglVars

\* except Exception as e: print, traceback
LiveExcept ==
    /\ prog = "Livedemo2"
    /\ pc = "l_except"
    /\ out' = "error"
    /\ pc' = "l_finally"
    /\ UNCHANGED <<histVars, frameVars, prog, end_time, cam, cam_open, closes, clock, last_call_time,
                   key, frame, grab_status, gate_log, cause, GEMINI_API_KEY, retries>>
    /\ UNCHANGED rglVars

\* finally: if cam is not None: cam.close(), its own exceptions swallowed
LiveFinally ==
    /\ prog = "Livedemo2"
    /\ pc = "l_finally"
    /\ IF cam # "None"
         THEN /\ closes' = closes + 1
              /\ cam_open' = FALSE
         ELSE UNCHANGED <<closes, cam_open>>
    /\ pc' = "exit"
    /\ UNCHANGED <<histVars, frameVars, prog, end_time, cam, clock, last_call_time, key, frame,
                   grab_status, gate_log, out, cause, GEMINI_API_KEY, retries>>
    /\ UNCHANGED rglVars

----------------------------------------------------------------------------
(* The two programs *)

Init ==
    /\ prog \in {"demo5", "Livedemo2"}
    /\ pc = IF prog = "demo5" THEN "open" ELSE "l_open"
    /\ end_time = 0
    /\ encodes = 0
    /\ prev_call_at = -1
    /\ last_gap = <<>>
    /\ last_site = "none"
    /\ img = "none"
    /\ bgr = "none"
    /\ cam = "None"
    /\ cam_open = FALSE
    /\ closes = 0
    /\ clock = EpochStart
    /\ last_call_time = 0
    /\ key = "other"
    /\ frame = "None"
    /\ grab_status = "none"
    /\ gate_log = <<>>
    /\ out = "none"
    /\ cause = "none"
    /\ GEMINI_API_KEY \in ApiKeys
    /\ retries = DEFAULT_RETRIES
    /\ rpc = "idle"
    /\ attempt = 0
    /\ calls = 0
    /\ waits = <<>>
    /\ answers = <<>>
    /\ result = "None"
    /\ site = "none"

Next ==
    \/ OpenZed
    \/ GrabFrame
    \/ TryAcquire
    \/ RglEnter
    \/ RglAttempt
    \/ RglExhausted
    \/ RglReturn
    \/ RglRaise
    \/ CheckQuit
    \/ Interrupt
    \/ ExceptHandler
    \/ Finally
    \/ LiveOpen
    \/ LivePoll
    \/ LiveGemini
    \/ LiveInterrupt
    \/ LiveExcept
    \/ LiveFinally

Spec == Init /\ [][Next]_vars

\* Livedemo2.main alone; its sequential code always takes its next step
InitLive == Init /\ prog = "Livedemo2"

NextLive ==
    \/ LiveOpen
    \/ LivePoll
    \/ LiveGemini
    \/ LiveInterrupt
    \/ LiveExcept
    \/ LiveFinally

SpecLive == InitLive /\ [][NextLive]_vars /\ WF_vars(NextLive)

SpecInferFair == InitInfer /\ [][NextInfer]_vars /\ WF_vars(NextInfer)

----------------------------------------------------------------------------
(* Properties *)

Verdict(i) == gate_log[i][2]
At(i) == gate_log[i][1]

\* C1: any two triggers the rate gate accepted have timestamps at least
\* MIN_INTERVAL (1.5 s) apart.
C1_AcceptedSpacing ==
    \A i, j \in DOMAIN gate_log :
        (i < j /\ Verdict(i) = "Accepted" /\ Verdict(j) = "Accepted")
            => At(j) - At(i) >= 1500

C1_Witness ==
    \E i, j \in DOMAIN gate_log :
        /\ i < j
        /\ Verdict(i) = "Accepted"
        /\ Verdict(j) = "Accepted"
        /\ \E m \in DOMAIN gate_log : i < m /\ m < j /\ Verdict(m) = "Throttled"

\* C2: the first trigger is accepted whatever its time; the second one, made
\* D later, is throttled when D < 1.5 s and accepted when D >= 1.5 s
\* (D = 1.5 s exactly is accepted).
C2_FirstThenSecond ==
    /\ Len(gate_log) >= 1 => Verdict(1) = "Accepted"
    /\ Len(gate_log) >= 2 =>
         Verdict(2) = IF At(2) - At(1) < 1500 THEN "Throttled" ELSE "Accepted"

C2_Witness ==
    /\ Len(gate_log) >= 2
    /\ At(2) - At(1) = 1500
    /\ Verdict(2) = "Accepted"

\* the service answered "overloaded" to the first k calls of this run
OverloadedFirst(k) == \A i \in 1..k : answers[i] = "err_503"

ExpectedWaits(k) == SubSeq(<<1000, 2000, 4000, 8000, 16000, 32000>>, 1, k)

\* C3: with a credential, when the service answers "overloaded" to the first
\* k calls and then succeeds, run_gemini_live returns through its success
\* return after exactly k+1 calls and exactly k waits of 1, 2, 4, ... seconds.
C3_RetryThenSuccess ==
    \A k \in 0..MaxRetries + 1 :
        (/\ Len(answers) = k + 1
         /\ OverloadedFirst(k)
         /\ ~IsError(answers[k + 1]))
        => /\ rpc = "returned"
           /\ site = "success"
           /\ result = (IF answers[k + 1] = "ok_text" THEN "TEXT" ELSE "None")
           /\ calls = k + 1
           /\ k < retries
           /\ waits = ExpectedWaits(k)

C3_Witness ==
    /\ retries = 3
    /\ answers = <<"err_503", "err_503", "ok_text">>
    /\ rpc = "returned"
    /\ waits = <<1000, 2000>>

\* while every answer so far is "overloaded": at most `retries` calls, no
\* raise, and a return only through `return None` after the loop
C4_Bounded ==
    (/\ GEMINI_API_KEY = "key"
     /\ frame = "f_ok"
     /\ OverloadedFirst(Len(answers)))
    => /\ calls <= retries
       /\ rpc # "raised"
       /\ rpc = "returned" =>
            /\ site = "exhausted"
            /\ result = "None"
            /\ calls = retries

\* C4: with a credential and a service that answers "overloaded" every time,
\* run_gemini_live never makes more than `retries` calls, does not raise,
\* returns None (unavailable) after exactly `retries` calls, and it ends.
C4_ExhaustsAndEnds == [] C4_Bounded /\ <>(rpc \in {"returned", "raised"})

C4_Witness ==
    /\ retries = 3
    /\ answers = <<"err_503", "err_503", "err_503">>
    /\ rpc = "returned"
    /\ site = "exhausted"

\* C5: with a credential, a "quota exhausted" answer to the first call makes
\* run_gemini_live return None (unavailable) after exactly one call and no
\* backoff wait, for every retries >= 1.
C5_QuotaNoRetry ==
    (Len(answers) >= 1 /\ answers[1] = "err_429")
    => /\ rpc = "returned"
       /\ site = "quota"
       /\ result = "None"
       /\ calls = 1
       /\ Len(answers) = 1
       /\ waits = <<>>

C5_Witness ==
    /\ retries = MaxRetries
    /\ answers = <<"err_429">>
    /\ rpc = "returned"

\* C6: without a credential run_gemini_live returns None (skipped) and makes
\* no service call and no backoff wait, whatever the frame and retries.
C6_NoCredentialNoCall ==
    GEMINI_API_KEY \in {"None", ""}
    => /\ calls = 0
       /\ answers = <<>>
       /\ waits = <<>>
       /\ rpc \in {"entry", "returned"}
       /\ rpc = "returned" => (site = "nocred" /\ result = "None")

C6_Witness ==
    /\ GEMINI_API_KEY = ""
    /\ retries = MaxRetries
    /\ frame = "f_bad"
    /\ rpc = "returned"
    /\ site = "nocred"

\* C7: a failure that is neither overload nor quota is re-raised on the
\* attempt where it occurs: no wait and no call follow it, and when it is
\* the first answer exactly one call was made.
C7_FatalPropagates ==
    \A i \in DOMAIN answers :
        answers[i] = "err_other"
        => /\ i = Len(answers)
           /\ rpc = "raised"
           /\ calls = i
           /\ Len(waits) = i - 1

C7_Witness ==
    /\ answers = <<"err_503", "err_other">>
    /\ rpc = "raised"

\* C8 as stated: after a fatal service error the inspection loop is still
\* running and goes on to a further capture iteration.
C8_LoopSurvivesFatal ==
    [][(prog = "demo5" /\ pc = "infer" /\ rpc = "raised" /\ cause' # "interrupt")
          => pc' \in LoopPcs]_vars

\* C8 amended: a fatal service error ends the inspection and the loop; it is
\* reported to the operator by the outer handler, no further capture is done,
\* and the camera is closed before main is left.
C8_FatalEndsLoop ==
    (prog = "demo5" /\ cause = "fatal")
    => /\ pc \in {"except", "finally", "exit"}
       /\ rpc = "idle"
       /\ pc = "finally" => out = "error"
       /\ pc = "exit" => (closes = 1 /\ ~cam_open)

C8_Witness ==
    /\ prog = "demo5"
    /\ cause = "fatal"
    /\ pc = "exit"
    /\ closes = 1

\* C9: a failed capture does not end the driving loop: the loop goes on to
\* the next iteration and captures again.
C9_LoopSurvivesCaptureFailure ==
    (prog = "demo5" /\ grab_status = "FAIL") => pc \in LoopPcs

\* C10: when main is left after the camera was opened, close was called
\* exactly once; when opening failed, close is never called.
C10_ClosedExactlyOnce ==
    /\ closes <= 1
    /\ cam = "None" => closes = 0
    /\ pc = "exit" =>
         /\ ~cam_open
         /\ closes = IF cam = "handle" THEN 1 ELSE 0

C10_Witness ==
    /\ prog = "demo5"
    /\ pc = "exit"
    /\ cause = "interrupt"
    /\ cam = "handle"
    /\ closes = 1

\* C11: a successful call with an empty text payload returns a Success value
\* that differs from the value returned for Unavailable and Skipped (None).
C11_EmptySuccessDistinct ==
    (rpc = "returned" /\ site = "success") => result # "None"

\* C12 as stated: any two consecutive outbound calls, retries included, start
\* at least 1.5 s apart.
C12_CallsSpaced ==
    last_gap # <<>> => last_gap[1] >= 1500

\* C12 amended: inside one inspection the call of loop index i >= 1 starts
\* at least 2^(i-1) s after the previous call started (1 s for the first
\* retry); the 1.5 s minimum is not kept between calls.
C12_RetryGaps ==
    (last_gap # <<>> /\ last_gap[2] >= 1)
        => last_gap[1] >= ExpectedWaits(last_gap[2])[last_gap[2]]

C12_Witness ==
    /\ prog = "demo5"
    /\ last_gap = <<1000, 1>>
    /\ Len(gate_log) = 1

\* C13: for a 4-channel driver frame the returned frame has the same height
\* and width, exactly 3 channels per pixel, and each pixel is the first three
\* source channels reversed: out[0] = src[2], out[1] = src[1], out[2] = src[0].
C13_FourChannelsToBGR ==
    (pc = "converted" /\ img.c = 4)
    => /\ bgr.h = img.h
       /\ bgr.w = img.w
       /\ bgr.c = 3
       /\ DOMAIN bgr.data = DOMAIN img.data
       /\ \A p \in DOMAIN img.data :
            /\ DOMAIN bgr.data[p] = 1..3
            /\ bgr.data[p][1] = img.data[p][3]
            /\ bgr.data[p][2] = img.data[p][2]
            /\ bgr.data[p][3] = img.data[p][1]

C13_Witness ==
    /\ pc = "converted"
    /\ img.c = 4
    /\ img.h * img.w = 2
    /\ img.data[<<1, 1>>] = <<255, 0, 0, 255>>
    /\ bgr.data[<<1, 1>>] = <<0, 0, 255>>

\* the gate decided on a trigger in this step, and it was throttled
ThrottledStep ==
    /\ Len(gate_log') = Len(gate_log) + 1
    /\ gate_log'[Len(gate_log')][2] = "Throttled"

\* a trigger at least 1.5 s after every accepted one is accepted, whatever
\* was throttled in between; an inspection runs only for the latest accepted one
C14_LogConsistent ==
    /\ \A j \in DOMAIN gate_log :
         (\A i \in 1..(j - 1) : Verdict(i) = "Accepted" => At(j) - At(i) >= 1500)
             => Verdict(j) = "Accepted"
    /\ (prog = "demo5" /\ rpc # "idle")
         => /\ Verdict(Len(gate_log)) = "Accepted"
            /\ At(Len(gate_log)) = last_call_time

\* C14: a throttled trigger leaves last_call_time unchanged and starts no
\* inspection and no remote call, then or later: it is dropped, and a trigger
\* at least 1.5 s after the last accepted one is accepted.
C14_ThrottledIsDropped ==
    /\ [] C14_LogConsistent
    /\ [][ThrottledStep =>
             /\ last_call_time' = last_call_time
             /\ rpc' = "idle"
             /\ calls' = 0
             /\ prev_call_at' = prev_call_at
             /\ pc' = "checkq"]_vars

C14_Witness ==
    /\ Len(gate_log) = 3
    /\ Verdict(1) = "Accepted"
    /\ Verdict(2) = "Throttled"
    /\ Verdict(3) = "Accepted"
    /\ At(3) - At(1) = 1500
    /\ At(3) - At(2) < 1500

\* C15: every backoff wait is followed by another attempt, so a concluded
\* run_gemini_live has made fewer waits than calls (always overloaded with
\* retries = 3: exactly 2 waits, of 1 s and 2 s).
C15_NoWaitAfterLastAttempt ==
    (rpc \in {"returned", "raised"} /\ calls > 0) => Len(waits) < calls

\* C16: the loop exits on the quit key only at the end of an iteration, never
\* while run_gemini_live is running; and an iteration that read the quit key
\* (so ran no inspection) leaves the loop in that same iteration.
C16_QuitBetweenInspections ==
    [][/\ (cause # "quit" /\ cause' = "quit")
            => (pc = "checkq" /\ rpc = "idle" /\ key = "q")
       /\ (prog = "demo5" /\ pc = "grab" /\ key' = "q" /\ grab_status' = "SUCCESS")
            => pc' = "checkq"
       /\ (prog = "demo5" /\ pc = "checkq" /\ key = "q")
            => (pc' = "finally" /\ cause' \in {"quit", "interrupt"} /\ clock' = clock)
      ]_vars

C16_Witness ==
    /\ prog = "demo5"
    /\ cause = "quit"
    /\ pc = "finally"
    /\ last_site = "success"
    /\ last_gap = <<1000, 1>>
    /\ Len(gate_log) = 1

\* while run_gemini_live runs on a frame that cannot be encoded: one encoding,
\* no service call, no wait, and the only return is the encoding-failure one
C17_NoCallOnEncodingFailure ==
    (pc = "infer" /\ GEMINI_API_KEY = "key" /\ frame = "f_bad")
    => /\ calls = 0
       /\ answers = <<>>
       /\ waits = <<>>
       /\ rpc \in {"entry", "returned"}
       /\ rpc = "entry" => encodes = 0
       /\ rpc = "returned" => (site = "encode" /\ result = "None" /\ encodes = 1)

\* C17: when encoding the frame fails the inspection ends with no call to
\* the remote service and no second encoding, and the loop goes on to its
\* next iteration.
C17_EncodingFailureContinues ==
    /\ [] C17_NoCallOnEncodingFailure
    /\ [][/\ (prog = "demo5" /\ pc = "infer" /\ site = "encode" /\ cause' # "interrupt")
               => (pc' = "checkq" /\ key' = "g" /\ cause' = "none"
                   /\ prev_call_at' = prev_call_at)
          /\ (prog = "demo5" /\ pc = "checkq" /\ key = "g" /\ last_site = "encode"
                /\ cause' # "interrupt")
               => pc' = "grab"
         ]_vars

C17_Witness ==
    /\ prog = "demo5"
    /\ pc = "grab"
    /\ cause = "none"
    /\ GEMINI_API_KEY = "key"
    /\ last_site = "encode"
    /\ prev_call_at = -1
    /\ Len(gate_log) = 1

\* C18: grab_left_image always ends: it polls until a grab succeeds and then
\* returns that frame, or until the timeout has elapsed and then raises; it
\* never waits forever and never returns after a failed grab.
C18_PollTerminates ==
    /\ (pc = "l_poll") ~> (pc # "l_poll")
    /\ [][/\ (pc = "l_poll" /\ pc' = "l_gemini")
               => (grab_status' = "SUCCESS" /\ clock < end_time /\ frame' \in Frames)
          /\ (pc = "l_poll" /\ pc' = "l_except")
               => (clock >= end_time /\ frame' = frame /\ cause' = "capture")
          /\ (pc = "l_poll" /\ pc' = "l_poll")
               => (grab_status' = "FAIL" /\ clock < end_time /\ clock' >= clock + 5)
         ]_vars

C18_Witness ==
    /\ prog = "Livedemo2"
    /\ pc = "l_except"
    /\ cause = "capture"
    /\ grab_status = "FAIL"
    /\ clock >= end_time

\* how the failure answered to call i was handled
Waited(i) == Len(waits) >= i
QuotaReturned(i) == i = Len(answers) /\ rpc = "returned" /\ site = "quota"
Reraised(i) == i = Len(answers) /\ rpc = "raised"

\* C19: a failure whose message carries both an overload and a quota marker
\* is handled as overload (backoff wait, loop continues), never as quota
\* exhaustion; every failure is handled by exactly one of the three branches.
C19_OverloadTakesPrecedence ==
    \A i \in DOMAIN answers :
        /\ answers[i] = "err_503_429"
             => /\ Waited(i)
                /\ waits[i] = ExpectedWaits(i)[i]
                /\ ~QuotaReturned(i)
                /\ ~Reraised(i)
                /\ i = Len(answers) => (rpc = "loop" \/ site = "exhausted")
        /\ answers[i] \in {"err_503", "err_429", "err_503_429", "err_other"}
             => /\ Waited(i) \/ QuotaReturned(i) \/ Reraised(i)
                /\ ~(Waited(i) /\ QuotaReturned(i))
                /\ ~(Waited(i) /\ Reraised(i))
                /\ ~(QuotaReturned(i) /\ Reraised(i))

C19_Witness ==
    /\ answers = <<"err_503_429", "ok_text">>
    /\ waits = <<1000>>
    /\ rpc = "returned"
    /\ site = "success"

\* time of the latest accepted trigger, read from the history
LastAcceptedAt ==
    At(CHOOSE i \in DOMAIN gate_log :
         /\ Verdict(i) = "Accepted"
         /\ \A j \in DOMAIN gate_log : j > i => Verdict(j) # "Accepted")

\* C20: an accepted trigger takes the rate-gate slot before the credential
\* check and the encoding: after an inspection that ended without a credential
\* or with an encoding failure, a trigger less than 1.5 s after the accepted
\* one is throttled.
C20_SkippedInspectionTakesSlot ==
    /\ [] ((prog = "demo5" /\ pc = "infer" /\ rpc = "entry")
             => /\ Verdict(Len(gate_log)) = "Accepted"
                /\ last_call_time = At(Len(gate_log))
                /\ encodes = 0
                /\ calls = 0)
    /\ [][(/\ prog = "demo5"
           /\ pc = "gate"
           /\ Len(gate_log') = Len(gate_log) + 1
           /\ last_site \in {"nocred", "encode"}
           /\ clock - LastAcceptedAt < 1500)
              => gate_log'[Len(gate_log')][2] = "Throttled"]_vars

C20_Witness ==
    /\ Len(gate_log) = 2
    /\ Verdict(1) = "Accepted"
    /\ Verdict(2) = "Throttled"
    /\ last_site = "encode"
    /\ prev_call_at = -1

====
